---- MODULE Spec2Model ----
(***************************************************************************)
(* Model of the Optimizer back end: the Flask application (backend/app.py)  *)
(* with its process-wide globals, and the pipeline run of                   *)
(* OptimizerOrchestrator.process_project_comprehensive                      *)
(* (backend/orchestrator.py), executed by background threads.               *)
(***************************************************************************)
EXTENDS Integers, Sequences, FiniteSets, TLC

(***************************************************************************)
(* Bounds of the model.                                                     *)
(***************************************************************************)
MaxRuns == 2
MaxReqs == 2
MaxFaults == 1
MaxFiles == 1
MaxTranscripts == 1
\* characters of a text given to chunk_text
MaxText == 7
\* largest chunk_size and overlap given to chunk_text
MaxChunk == 3
\* chunks a DocumentIndexer is given in all
MaxStore == 2
\* largest top_k of a search
MaxTopK == 2
\* largest similarity, in tenths
MaxScore == 1

Threads == 1..MaxRuns
Handlers == 1..MaxReqs

(***************************************************************************)
(* Python's None and a present value.                                       *)
(***************************************************************************)
None == << >>
Some(x) == <<x>>

(***************************************************************************)
(* Keys of results["results"] and the tasks run on worker pools.            *)
(***************************************************************************)
AgentKeys == {"blueprint", "crawler", "optimizer", "echo_analysis",
              "synthesis", "analysis", "dashboard", "action_plan"}
ResultKeys == AgentKeys \cup {"indexing"}
TierA == {"blueprint", "crawler"}
TierB == {"optimizer", "echo_analysis"}
TierC == {"dashboard", "action_plan"}
PoolTasks == TierA \cup TierB \cup TierC

EmptyResults == [k \in ResultKeys |-> "absent"]
NoFutures == [k \in PoolTasks |-> "none"]

VARIABLES
    processing_thread,  \* app.py global: 0 is None, else the Thread object
    current_results,    \* app.py global: None or Some(results dict)
    process_status,     \* orchestrator.process_status
    current_process,    \* orchestrator.current_process: None or Some(dict)
    req,                \* /api/process handlers in flight (threaded server)
    inp,                \* per run: the request's files / transcripts
    pc,                 \* per run: position of the background thread
    results,            \* per run: the local dict `results`
    fut,                \* per run: the futures of the worker pools
    ctx,                \* per run: the strings prepared for Tier B and the
                        \* payloads handed to synthesis
    first,              \* per run, history: the tasks that returned first in
                        \* their pool (recorded when lim.order)
    raised,             \* per run: agent keys whose underlying call raised
    cause,              \* per run: the exception that entered the handler
    reset,              \* /api/clear ran and no run was requested since
    started,            \* number of threads created so far
    faults,             \* number of failing external calls so far
    lim,                \* what this execution may use (runs and faults) and
                        \* whether it records the order of completion
    rag_system,         \* the RAGSystem the orchestrator, the optimizer agent
                        \* and the echo agent each refer to
    text, chunk_size, overlap,   \* the arguments of a chunk_text call
    chunks,                      \* None, or Some(what the call produced)
    index, documents, metadata,  \* the fields of a DocumentIndexer
    saving,                      \* save_index is between its two writes
    index_file, metadata_file,   \* the two artifacts on disk
    retriever,                   \* the fields of a DocumentRetriever
    loading,                     \* position of a load_index call
    ret,                         \* the outcome of the last call on either object
    knowledge_base,              \* ResearchKnowledgeBase.knowledge_base
    vector_indexer,              \* ResearchKnowledgeBase.vector_indexer
    json_file,                   \* the file at json_storage_path
    now,                         \* datetime.now(), in days
    crawl                        \* position of _store_research_in_knowledge_base

chunkVars == <<text, chunk_size, overlap, chunks>>
indexerVars == <<index, documents, metadata, saving>>
diskVars == <<index_file, metadata_file>>
ragVars == <<indexerVars, diskVars, retriever, loading, ret>>
kbVars == <<knowledge_base, vector_indexer, json_file, now, crawl>>
libVars == <<chunkVars, ragVars, kbVars>>

vars == <<processing_thread, current_results, process_status, current_process,
          req, inp, pc, results, fut, ctx, first, raised, cause, reset, started,
          faults, lim, rag_system, libVars>>

appVars == <<processing_thread, current_results, reset>>
orchVars == <<process_status, current_process>>
runVars == <<inp, pc, results, fut, ctx, first, raised, cause>>

(***************************************************************************)
(* The local dict `results` of a run (orchestrator.py 190-197) and the      *)
(* dict async_process_project builds when the call raises (app.py 71-78).   *)
(***************************************************************************)
NewResults(t) ==
    [run |-> t, status |-> "running", res |-> EmptyResults, summary |-> None]

Unset(t) ==
    [run |-> t, status |-> "unset", res |-> EmptyResults, summary |-> None]

ErrorDict(t) ==
    [run |-> t, status |-> "error", res |-> EmptyResults, summary |-> None]

total_steps == 7
DefaultChunkSize == 500
DefaultOverlap == 50
\* score_threshold = 0.1, in tenths
DefaultThreshold == 1

NewProcess ==
    [status |-> "running", current_step |-> "initializing", steps_completed |-> 0]

NoInput == [files |-> 0, transcripts |-> 0]
NoContext == [blueprint_data_str |-> "unset", crawler_data_str |-> "unset",
              synthesis |-> None]
IdleHandler == [pc |-> "idle", alive |-> FALSE]

Alive(t) == pc[t] \notin {"unborn", "dead"}
AnyAlive == \E t \in Threads : Alive(t)
ThreadIsAlive == processing_thread # 0 /\ Alive(processing_thread)
Checked == {r \in Handlers : req[r].pc = "checked"}

(***************************************************************************)
(* The values of the variables of a part of the program that an execution   *)
(* does not exercise.                                                       *)
(***************************************************************************)
ChunkIdle ==
    /\ text = << >>
    /\ chunk_size = 1
    /\ overlap = 0
    /\ chunks = None

Missing == [state |-> "missing"]
NoCall == [call |-> "none", raised |-> "none"]

\* DocumentRetriever.__init__, retriever.py 13-16
NewRetriever ==
    [index |-> None, documents |-> << >>, metadata |-> << >>, is_loaded |-> FALSE]

\* DocumentIndexer.__init__, indexer.py 18-20
NewIndexer ==
    /\ index = None
    /\ documents = << >>
    /\ metadata = << >>
    /\ saving = FALSE

RagIdle ==
    /\ NewIndexer
    /\ index_file = Missing
    /\ metadata_file = Missing
    /\ retriever = NewRetriever
    /\ loading = "idle"
    /\ ret = NoCall

two(n) == IF n < 10 THEN "0" \o ToString(n) ELSE ToString(n)

\* datetime.isoformat() of midnight t days after 1 January 2026
isoformat(t) ==
    IF t < 31 THEN "2026-01-" \o two(t + 1) \o "T00:00:00"
    ELSE "2026-02-" \o two(t - 30) \o "T00:00:00"

\* research_kb.py 23-35 and 42-54, _create_empty_kb
EmptyKB(t) ==
    [metadata |-> [last_updated |-> isoformat(t),
                   total_github_repos |-> 0,
                   total_research_papers |-> 0,
                   total_projects_analyzed |-> 0],
     github_repositories |-> << >>,
     research_papers |-> << >>,
     project_analyses |-> << >>]

CrawlIdle == [pc |-> "idle"]

KbIdle ==
    /\ knowledge_base = EmptyKB(0)
    /\ vector_indexer = None
    /\ json_file = Missing
    /\ now = 0
    /\ crawl = CrawlIdle

LibIdle == ChunkIdle /\ RagIdle /\ KbIdle

(***************************************************************************)
(* A RAGSystem is known by the artifacts it was made from: those on disk    *)
(* when the orchestrator was made (0), or those the rebuild of run t saved. *)
(* orchestrator.py 47-50 and 99-106: the three references are to one        *)
(* RAGSystem.                                                               *)
(***************************************************************************)
NewRagSystem(t) == [artifacts |-> t]

SameForAll(rag) == [orchestrator |-> rag, optimizer_agent |-> rag, echo_agent |-> rag]

(***************************************************************************)
(* State after initialize_orchestrator() succeeded and the server started.  *)
(***************************************************************************)
PipelineInit(runs, nfaults, order) ==
    /\ processing_thread = 0
    /\ current_results = None
    /\ process_status = "idle"
    /\ current_process = None
    /\ req = [r \in Handlers |-> IdleHandler]
    /\ inp = [t \in Threads |-> NoInput]
    /\ pc = [t \in Threads |-> "unborn"]
    /\ results = [t \in Threads |-> Unset(t)]
    /\ fut = [t \in Threads |-> NoFutures]
    /\ ctx = [t \in Threads |-> NoContext]
    /\ first = [t \in Threads |-> {}]
    /\ raised = [t \in Threads |-> {}]
    /\ cause = [t \in Threads |-> "none"]
    /\ reset = FALSE
    /\ started = 0
    /\ faults = 0
    /\ lim = [runs |-> runs, faults |-> nfaults, order |-> order]
    /\ rag_system = SameForAll(NewRagSystem(0))

InitWith(runs, nfaults, order) ==
    /\ PipelineInit(runs, nfaults, order)
    /\ LibIdle

pipelineVars ==
    <<processing_thread, current_results, process_status, current_process,
      req, inp, pc, results, fut, ctx, first, raised, cause, reset, started,
      faults, lim, rag_system>>

Init == InitWith(MaxRuns, MaxFaults, FALSE)

(***************************************************************************)
(* POST /api/process, app.py 165-205.  The server is threaded, so the       *)
(* handler is two steps: the is_alive check with the parsing of the         *)
(* request, and the creation and start of the thread.                       *)
(***************************************************************************)
ProcessCheck(r) ==
    /\ req[r].pc = "idle"
    /\ \A q \in Handlers : q < r => req[q].pc # "idle"
    /\ IF ThreadIsAlive
       THEN UNCHANGED req           \* 174-175: 409, another process is running
       ELSE \/ UNCHANGED req        \* 180-181: 400, project data is required
            \/ /\ started + Cardinality(Checked) < lim.runs
               /\ req' = [req EXCEPT ![r] = [pc |-> "checked", alive |-> AnyAlive]]
    /\ reset' = (reset /\ req' = req)
    /\ UNCHANGED <<processing_thread, current_results, orchVars, runVars, started,
                   faults, lim, rag_system, libVars>>

ProcessStart(r) ==
    /\ req[r].pc = "checked"
    /\ current_results' = None
    /\ reset' = FALSE
    /\ started' = started + 1
    /\ processing_thread' = started'
    /\ pc' = [pc EXCEPT ![started'] = "start"]
    /\ \E f \in 0..MaxFiles, tr \in 0..MaxTranscripts :
          inp' = [inp EXCEPT ![started'] = [files |-> f, transcripts |-> tr]]
    /\ req' = [req EXCEPT ![r] = IdleHandler]
    /\ UNCHANGED <<orchVars, results, fut, raised, cause, faults, ctx, first,
                   lim, rag_system, libVars>>

(***************************************************************************)
(* POST /api/clear, app.py 373-393.                                         *)
(***************************************************************************)
clear_results ==
    /\ current_results' = None
    /\ processing_thread' = 0
    /\ process_status' = "idle"
    /\ current_process' = None
    /\ reset' = TRUE
    /\ UNCHANGED <<req, runVars, started, faults, lim, rag_system, libVars>>

(***************************************************************************)
(* Helpers of the run.                                                      *)
(***************************************************************************)
SetPc(t, l) == pc' = [pc EXCEPT ![t] = l]

\* self.current_process[...] = ... on a dict that /api/clear replaced by None
\* raises TypeError, which the try of process_project_comprehensive catches.
Throw(t, c) ==
    /\ SetPc(t, "except")
    /\ cause' = [cause EXCEPT ![t] = c]

\* a progress counter that counts the steps one by one
ProgressByOne(step, n) ==
    current_process' =
        Some([current_process[1] EXCEPT
                !.current_step = step,
                !.steps_completed = IF n > @ THEN @ + 1 ELSE n])

Progress(step, n) ==
    current_process' =
        Some([current_process[1] EXCEPT !.current_step = step, !.steps_completed = n])

Fault(failed) ==
    /\ failed => faults < lim.faults
    /\ faults' = IF failed THEN faults + 1 ELSE faults

\* a join that waits for the first future of the tier only
ReturnedAny(t, tier) == \E k \in tier : fut[t][k] \in {"success", "error"}

Returned(t, tier) == \A k \in tier : fut[t][k] \in {"success", "error"}

\* a join that files the result of the task that returned first under every
\* key of the tier
StoreByCompletion(t, tier) ==
    results' = [results EXCEPT ![t].res =
                  [k \in ResultKeys |->
                     IF k \notin tier THEN @[k]
                     ELSE IF first[t] \cap tier = {} THEN fut[t][k]
                     ELSE fut[t][CHOOSE j \in first[t] \cap tier : TRUE]]]

Store(t, tier) ==
    results' = [results EXCEPT ![t].res =
                  [k \in ResultKeys |-> IF k \in tier THEN fut[t][k] ELSE @[k]]]

Submit(t, tier) ==
    fut' = [fut EXCEPT ![t] = [k \in PoolTasks |-> IF k \in tier THEN "running" ELSE @[k]]]

(***************************************************************************)
(* build_document_index, orchestrator.py 115-171: the status of its result  *)
(* from the chunks the indexer counted and whether anything raised.         *)
(***************************************************************************)
build_document_index(file_count, transcript_count, exc) ==
    IF exc THEN "error"
    ELSE IF file_count + transcript_count > 0 THEN "success"
    ELSE "warning"

(***************************************************************************)
(* _run_blueprint_agent .. _run_echo_agent, orchestrator.py 341-411: the    *)
(* status of the dict the wrapper returns for an outcome of the agent call  *)
(* ("success", "error" returned by the agent, or "raise").                  *)
(***************************************************************************)
\* a wrapper without its except clause
run_agent_nocatch(outcome) == outcome

run_agent(outcome) == IF outcome = "raise" THEN "error" ELSE outcome

(***************************************************************************)
(* The SynthesisAgent / AnalysisAgent methods the run calls directly        *)
(* (synthesis_agent.py 163-337, analysis_agent.py 259-308): the whole body  *)
(* is in a try, a raising generation call yields status "error".            *)
(***************************************************************************)
agent_method(outcome) == IF outcome = "raise" THEN "error" ELSE "success"

(***************************************************************************)
(* What the run hands from one tier to the next.  payload is the value      *)
(* under the payload key of a result dict ("blueprint", "research",         *)
(* "optimization", "echo_analysis"): a dict on success, None in every error *)
(* dict.  json_dumps is json.dumps(value, default=str)[:1500]: the JSON     *)
(* text of a dict, and the text null for None.                              *)
(***************************************************************************)
payload(status) == IF status = "success" THEN "dict" ELSE "None"

json_dumps(value) == IF value = "None" THEN "null" ELSE "json"

\* 359-363 and 385-389: the keyword arguments of the two Tier-B agent calls
optimizer_args(c) ==
    [context |-> c.blueprint_data_str, crawler_data |-> c.crawler_data_str]

echo_args(c) == [context |-> c.blueprint_data_str]

\* 276-281: the payloads handed to synthesize_comprehensive_report
synthesis_args(res) == [k \in TierA \cup TierB |-> payload(res[k])]

TierOf(k) == IF k \in TierA THEN TierA ELSE IF k \in TierB THEN TierB ELSE TierC

(***************************************************************************)
(* _generate_process_summary, orchestrator.py 449-471.                      *)
(***************************************************************************)
\* a summary that counts the indexing entry like an agent
_generate_process_summary_all(res) ==
    LET counted == {k \in ResultKeys : res[k] # "absent"}
        ok == {k \in counted : res[k] = "success"}
    IN  [total_agents_run |-> Cardinality(counted),
         successful_agents |-> Cardinality(ok),
         failed_agents |-> Cardinality(counted \ ok)]

_generate_process_summary(res) ==
    LET counted == {k \in ResultKeys : res[k] # "absent" /\ k # "indexing"}
        ok == {k \in counted : res[k] = "success"}
    IN  [total_agents_run |-> Cardinality(counted),
         successful_agents |-> Cardinality(ok),
         failed_agents |-> Cardinality(counted \ ok)]

(***************************************************************************)
(* process_project_comprehensive, orchestrator.py 173-338, as the steps of  *)
(* the background thread t.                                                 *)
(***************************************************************************)
\* 180-197
RunBegin(t) ==
    /\ pc[t] = "start"
    /\ process_status' = "running"
    /\ current_process' = Some(NewProcess)
    /\ results' = [results EXCEPT ![t] = NewResults(t)]
    /\ SetPc(t, "index_step")
    /\ UNCHANGED <<appVars, req, inp, fut, raised, cause, started, faults, ctx,
                   first, lim, rag_system, libVars>>

\* 200-201
RunIndexStep(t) ==
    /\ pc[t] = "index_step"
    /\ IF current_process = None
       THEN Throw(t, "TypeError") /\ UNCHANGED current_process
       ELSE /\ Progress("indexing_documents", current_process[1].steps_completed)
            /\ SetPc(t, IF inp[t].files > 0 \/ inp[t].transcripts > 0
                        THEN "indexing" ELSE "step1")
            /\ UNCHANGED cause
    /\ UNCHANGED <<appVars, process_status, req, inp, results, fut, raised,
                   started, faults, ctx, first, lim, rag_system, libVars>>

\* a run that goes on after a failed indexing step
AfterIndexingNoAbort(index_result) == "step1"

\* 204-209: an index result with status "error" ends the run
AfterIndexing(index_result) == IF index_result = "error" THEN "ret" ELSE "step1"

\* 202-207
RunIndexing(t) ==
    /\ pc[t] = "indexing"
    /\ \E fc \in 0..inp[t].files, tc \in 0..inp[t].transcripts, exc \in BOOLEAN :
          LET index_result == build_document_index(fc, tc, exc) IN
          /\ Fault(exc)
          /\ IF index_result = "success"
             THEN \* 133-145: the index is saved and self.rag_system is set
                  \* to a RAGSystem made from the saved artifacts
                  /\ rag_system' = [rag_system EXCEPT !.orchestrator = NewRagSystem(t)]
                  /\ SetPc(t, "rebind_optimizer")
                  /\ UNCHANGED results
             ELSE /\ results' = [results EXCEPT
                                   ![t].res["indexing"] = index_result,
                                   ![t].status = IF index_result = "error"
                                                 THEN "error" ELSE @]
                  /\ SetPc(t, AfterIndexing(index_result))
                  /\ UNCHANGED rag_system
    /\ inp' = [inp EXCEPT ![t] = NoInput]   \* files and transcripts are not read again
    /\ UNCHANGED <<appVars, orchVars, req, fut, raised, cause, started, ctx,
                   first, lim, libVars>>

\* 147: self.optimizer_agent.rag_system = self.rag_system, which reads the
\* orchestrator's reference as it is now
RunRebindOptimizer(t) ==
    /\ pc[t] = "rebind_optimizer"
    /\ rag_system' = [rag_system EXCEPT !.optimizer_agent = rag_system.orchestrator]
    /\ SetPc(t, "rebind_echo")
    /\ UNCHANGED <<appVars, orchVars, req, inp, results, fut, raised, cause,
                   started, faults, ctx, first, lim, libVars>>

\* 148-156 and 203: self.echo_agent.rag_system = self.rag_system, the rebuild
\* returns "success" and the run stores it
RunRebindEcho(t) ==
    /\ pc[t] = "rebind_echo"
    /\ rag_system' = [rag_system EXCEPT !.echo_agent = rag_system.orchestrator]
    /\ results' = [results EXCEPT ![t].res["indexing"] = "success"]
    /\ SetPc(t, AfterIndexing("success"))
    /\ UNCHANGED <<appVars, orchVars, req, inp, fut, raised, cause, started,
                   faults, ctx, first, lim, libVars>>

\* 209-229
RunStep1(t) ==
    /\ pc[t] = "step1"
    /\ IF current_process = None
       THEN Throw(t, "TypeError") /\ UNCHANGED <<current_process, fut>>
       ELSE /\ Progress("parallel_analysis", 1)
            /\ Submit(t, TierA)
            /\ SetPc(t, "tierA")
            /\ UNCHANGED cause
    /\ UNCHANGED <<appVars, process_status, req, inp, results, raised,
                   started, faults, ctx, first, lim, rag_system, libVars>>

\* a worker of the Tier A or Tier B pool returns from its _run_*_agent
WorkerReturn(t, k) ==
    /\ k \in TierA \cup TierB
    /\ fut[t][k] = "running"
    /\ \E outcome \in {"success", "error", "raise"} :
          /\ Fault(outcome # "success")
          /\ fut' = [fut EXCEPT ![t][k] = run_agent(outcome)]
          /\ raised' = [raised EXCEPT ![t] = IF outcome = "raise" THEN @ \cup {k} ELSE @]
    /\ first' = [first EXCEPT ![t] =
                   IF lim.order /\ \A j \in TierOf(k) \ {k} : fut[t][j] = "running"
                   THEN @ \cup {k} ELSE @]
    /\ UNCHANGED <<appVars, orchVars, req, inp, pc, results, ctx, cause, started,
                   lim, rag_system, libVars>>

\* 232-244
RunTierAJoin(t) ==
    /\ pc[t] = "tierA"
    /\ Returned(t, TierA)
    /\ Store(t, TierA)
    /\ SetPc(t, "step3")
    /\ UNCHANGED <<appVars, orchVars, req, inp, fut, raised, cause, started,
                   faults, ctx, first, lim, rag_system, libVars>>

\* 246-262
RunStep3(t) ==
    /\ pc[t] = "step3"
    /\ IF current_process = None
       THEN Throw(t, "TypeError") /\ UNCHANGED <<current_process, fut, ctx>>
       ELSE /\ Progress("optimization_and_echo_analysis", 3)
            /\ ctx' = [ctx EXCEPT
                         ![t].crawler_data_str =
                             json_dumps(payload(results[t].res["crawler"])),
                         ![t].blueprint_data_str =
                             json_dumps(payload(results[t].res["blueprint"]))]
            /\ Submit(t, TierB)
            /\ SetPc(t, "tierB")
            /\ UNCHANGED cause
    /\ UNCHANGED <<appVars, process_status, req, inp, results, first, raised,
                   started, faults, lim, rag_system, libVars>>

\* 265-269
RunTierBJoin(t) ==
    /\ pc[t] = "tierB"
    /\ Returned(t, TierB)
    /\ Store(t, TierB)
    /\ SetPc(t, "step5")
    /\ UNCHANGED <<appVars, orchVars, req, inp, fut, raised, cause, started,
                   faults, ctx, first, lim, rag_system, libVars>>

\* 271-274
RunStep5(t) ==
    /\ pc[t] = "step5"
    /\ IF current_process = None
       THEN Throw(t, "TypeError") /\ UNCHANGED current_process
       ELSE /\ Progress("generating_synthesis", 5)
            /\ SetPc(t, "synthesis")
            /\ UNCHANGED cause
    /\ UNCHANGED <<appVars, process_status, req, inp, results, fut, raised,
                   started, faults, ctx, first, lim, rag_system, libVars>>

\* 275-282
RunSynthesis(t) ==
    /\ pc[t] = "synthesis"
    /\ \E outcome \in {"success", "raise"} :
          /\ Fault(outcome # "success")
          /\ results' = [results EXCEPT ![t].res["synthesis"] = agent_method(outcome)]
          /\ raised' = [raised EXCEPT ![t] =
                          IF outcome = "raise" THEN @ \cup {"synthesis"} ELSE @]
    /\ ctx' = [ctx EXCEPT ![t].synthesis = Some(synthesis_args(results[t].res))]
    /\ SetPc(t, "analysis")
    /\ UNCHANGED <<appVars, orchVars, req, inp, fut, first, cause, started, lim,
                   rag_system, libVars>>

\* 285-304: the analysis step and the submission of dashboard and action plan
RunAnalysis(t) ==
    /\ pc[t] = "analysis"
    /\ IF current_process = None
       THEN /\ Throw(t, "TypeError")
            /\ UNCHANGED <<current_process, results, fut, raised, faults>>
       ELSE /\ Progress("comprehensive_analysis", current_process[1].steps_completed)
            /\ IF results[t].res["crawler"] = "error"
               \* 288: crawler_result.get("research", {}) is None, None.get raises
               THEN /\ Throw(t, "AttributeError")
                    /\ UNCHANGED <<results, fut, raised, faults>>
               ELSE /\ \E outcome \in {"success", "raise"} :
                         /\ Fault(outcome # "success")
                         /\ results' = [results EXCEPT ![t].res["analysis"] =
                                           agent_method(outcome)]
                         /\ raised' = [raised EXCEPT ![t] =
                                         IF outcome = "raise" THEN @ \cup {"analysis"} ELSE @]
                    /\ IF results[t].res["synthesis"] = "success"
                       THEN Submit(t, TierC) /\ SetPc(t, "tierC")
                       ELSE SetPc(t, "finish") /\ UNCHANGED fut
                    /\ UNCHANGED cause
    /\ UNCHANGED <<appVars, process_status, req, inp, started, ctx, first, lim,
                   rag_system, libVars>>

\* a worker of the last pool returns from create_executive_dashboard or
\* generate_action_plan
MethodReturn(t, k) ==
    /\ k \in TierC
    /\ fut[t][k] = "running"
    /\ \E outcome \in {"success", "raise"} :
          /\ Fault(outcome # "success")
          /\ fut' = [fut EXCEPT ![t][k] = agent_method(outcome)]
          /\ raised' = [raised EXCEPT ![t] = IF outcome = "raise" THEN @ \cup {k} ELSE @]
    /\ UNCHANGED <<appVars, orchVars, req, inp, pc, results, cause, started,
                   ctx, first, lim, rag_system, libVars>>

\* 306-307
RunTierCJoin(t) ==
    /\ pc[t] = "tierC"
    /\ Returned(t, TierC)
    /\ Store(t, TierC)
    /\ SetPc(t, "finish")
    /\ UNCHANGED <<appVars, orchVars, req, inp, fut, raised, cause, started,
                   faults, ctx, first, lim, rag_system, libVars>>

\* 309-323
RunFinish(t) ==
    /\ pc[t] = "finish"
    /\ IF current_process = None
       THEN Throw(t, "TypeError") /\ UNCHANGED <<orchVars, results>>
       ELSE /\ Progress("completed", 7)
            /\ results' = [results EXCEPT
                             ![t].status = "completed",
                             ![t].summary = Some(_generate_process_summary(results[t].res))]
            /\ process_status' = "completed"
            /\ SetPc(t, "ret")
            /\ UNCHANGED cause
    /\ UNCHANGED <<appVars, req, inp, fut, raised, started, faults, ctx, first,
                   lim, rag_system, libVars>>

\* 325-338: the handler; with current_process None line 330 raises again and
\* the exception leaves process_project_comprehensive
RunExcept(t) ==
    /\ pc[t] = "except"
    /\ process_status' = "error"
    /\ IF current_process = None
       THEN /\ SetPc(t, "raised")
            /\ UNCHANGED <<current_process, results>>
       ELSE /\ current_process' = Some([current_process[1] EXCEPT !.status = "error"])
            /\ results' = [results EXCEPT ![t].status = "error"]
            /\ SetPc(t, "ret")
    /\ UNCHANGED <<appVars, req, inp, fut, raised, cause, started, faults, ctx,
                   first, lim, rag_system, libVars>>

(***************************************************************************)
(* async_process_project, app.py 57-78: the assignment of the value the     *)
(* run returned, or of the error dict when it raised; the thread ends and   *)
(* its locals with it.                                                      *)
(***************************************************************************)
async_process_project(t) ==
    /\ pc[t] \in {"ret", "raised"}
    /\ current_results' = IF pc[t] = "ret" THEN Some(results[t]) ELSE Some(ErrorDict(t))
    /\ SetPc(t, "dead")
    /\ results' = [results EXCEPT ![t] = Unset(t)]
    /\ fut' = [fut EXCEPT ![t] = NoFutures]
    /\ raised' = [raised EXCEPT ![t] = {}]
    /\ cause' = [cause EXCEPT ![t] = "none"]
    /\ ctx' = [ctx EXCEPT ![t] = NoContext]
    /\ first' = [first EXCEPT ![t] = {}]
    /\ UNCHANGED <<processing_thread, reset, orchVars, req, inp, started, faults,
                   lim, rag_system, libVars>>

Run(t) ==
    \/ RunBegin(t)
    \/ RunIndexStep(t)
    \/ RunIndexing(t)
    \/ RunRebindOptimizer(t)
    \/ RunRebindEcho(t)
    \/ RunStep1(t)
    \/ RunTierAJoin(t)
    \/ RunStep3(t)
    \/ RunTierBJoin(t)
    \/ RunStep5(t)
    \/ RunSynthesis(t)
    \/ RunAnalysis(t)
    \/ RunTierCJoin(t)
    \/ RunFinish(t)
    \/ RunExcept(t)

Next ==
    \/ \E r \in Handlers : ProcessCheck(r)
    \/ \E r \in Handlers : ProcessStart(r)
    \/ clear_results
    \/ \E t \in Threads : Run(t)
    \/ \E t \in Threads, k \in TierA \cup TierB : WorkerReturn(t, k)
    \/ \E t \in Threads, k \in TierC : MethodReturn(t, k)
    \/ \E t \in Threads : async_process_project(t)

\* the application: concurrent requests, resets and background runs
Spec == Init /\ [][Next]_vars

\* one run with every combination of failing calls
InitRun == InitWith(1, Cardinality(ResultKeys), TRUE)
SpecRun == InitRun /\ [][Next]_vars

(***************************************************************************)
(* DocumentIndexer.chunk_text, rag/indexer.py 57-70.  A text is a sequence  *)
(* of characters; str.strip, str.split and " ".join are computed on it.     *)
(***************************************************************************)
Chars == {"a", "b", " "}
Texts == UNION {[1..n -> Chars] : n \in 0..MaxText}

RECURSIVE lstrip(_)
lstrip(str) ==
    IF str # << >> /\ str[1] = " " THEN lstrip(Tail(str)) ELSE str

RECURSIVE rstrip(_)
rstrip(str) ==
    IF str # << >> /\ str[Len(str)] = " "
    THEN rstrip(SubSeq(str, 1, Len(str) - 1)) ELSE str

strip(str) == rstrip(lstrip(str))

\* str.split(): the maximal runs of non-blank characters
RECURSIVE split_from(_, _, _)
split_from(str, i, word) ==
    IF i > Len(str) THEN (IF word = << >> THEN << >> ELSE <<word>>)
    ELSE IF str[i] = " "
         THEN (IF word = << >> THEN << >> ELSE <<word>>) \o split_from(str, i + 1, << >>)
         ELSE split_from(str, i + 1, Append(word, str[i]))

split(str) == split_from(str, 1, << >>)

\* " ".join(words)
RECURSIVE join(_)
join(words) ==
    IF words = << >> THEN << >>
    ELSE IF Len(words) = 1 THEN words[1]
    ELSE words[1] \o <<" ">> \o join(Tail(words))

\* words[i:j] for 0 <= i
slice(words, i, j) ==
    SubSeq(words, i + 1, IF j < Len(words) THEN j ELSE Len(words))

\* list(range(start, stop, step)) for step > 0
RECURSIVE range(_, _, _)
range(start, stop, step) ==
    IF start >= stop THEN << >> ELSE <<start>> \o range(start + step, stop, step)

Returns(value) == [raised |-> "none", value |-> value]
Raises(exception) == [raised |-> exception, value |-> << >>]

\* a chunker whose windows do not overlap
chunk_text_no_overlap(str, size, lap) ==
    IF strip(str) = << >> THEN Returns(<< >>)
    ELSE LET words == split(str)
             starts == range(0, Len(words), size)
             windows == [k \in 1..Len(starts) |->
                           join(slice(words, starts[k], starts[k] + size))]
         IN  Returns(SelectSeq(windows, LAMBDA c : strip(c) # << >>))

chunk_text(str, size, lap) ==
    IF strip(str) = << >> THEN Returns(<< >>)
    ELSE IF size - lap = 0 THEN Raises("ValueError")   \* range() arg 3 must not be zero
    ELSE LET words == split(str)
             starts == IF size - lap < 0 THEN << >>
                       ELSE range(0, Len(words), size - lap)
             windows == [k \in 1..Len(starts) |->
                           join(slice(words, starts[k], starts[k] + size))]
         IN  Returns(SelectSeq(windows, LAMBDA c : strip(c) # << >>))

\* a call of chunk_text on any text and any pair of parameters
InitChunk ==
    /\ PipelineInit(0, 0, FALSE)
    /\ RagIdle
    /\ KbIdle
    /\ text \in Texts
    /\ chunk_size \in 1..MaxChunk
    /\ overlap \in 0..MaxChunk
    /\ chunks = None

ChunkText ==
    /\ chunks = None
    /\ chunks' = Some(chunk_text(text, chunk_size, overlap))
    /\ UNCHANGED <<pipelineVars, kbVars, text, chunk_size, overlap, ragVars>>

NextChunk == ChunkText

SpecChunk == InitChunk /\ [][NextChunk]_vars

(***************************************************************************)
(* DocumentIndexer, rag/indexer.py 108-234: the index and its two parallel  *)
(* lists.  A chunk is known by its content; the dicts given to              *)
(* add_documents may lack a key.  The embedding of a text is a vector that  *)
(* is a function of the text.                                               *)
(***************************************************************************)
Contents == {"alpha", "beta"}

Meta(c) == [source |-> c, file_name |-> c]

\* process_document 93-104, process_transcript 116-125, add_document 224-232
Chunk(c) == [content |-> Some(c), metadata |-> Some(Meta(c))]

Dicts ==
    {Chunk(c) : c \in Contents}
        \cup {[content |-> Some(c), metadata |-> None] : c \in Contents}
        \cup {[content |-> None, metadata |-> Some(Meta(c))] : c \in Contents}

SeqsUpTo(S, n) == UNION {[1..k -> S] : k \in 0..n}

\* self.model.encode(texts) followed by faiss.normalize_L2
encode(texts) == [i \in 1..Len(texts) |-> [vec |-> texts[i]]]

Vectors == IF index = None THEN << >> ELSE index[1]

\* 129-154.  fail is the external call that raises, if one does: "encode"
\* (138), "add" (145-148, after the index was created) or "none".  The value
\* is the fields after the call and the exception that left it.
add_documents(docs, fail) ==
    LET same == [index |-> index, documents |-> documents, metadata |-> metadata]
        texts == [i \in 1..Len(docs) |-> docs[i].content[1]]
    IN  IF docs = << >> THEN same @@ [raised |-> "none"]
        ELSE IF \E i \in 1..Len(docs) : docs[i].content = None
             THEN same @@ [raised |-> "KeyError"]
        ELSE IF fail = "encode" THEN same @@ [raised |-> "Exception"]
        ELSE IF fail = "add"
             THEN [same EXCEPT !.index = Some(Vectors)] @@ [raised |-> "Exception"]
        ELSE IF \E i \in 1..Len(docs) : docs[i].metadata = None
             THEN [index |-> Some(Vectors \o encode(texts)),
                   documents |-> documents \o texts,
                   metadata |-> metadata,
                   raised |-> "KeyError"]
        ELSE [index |-> Some(Vectors \o encode(texts)),
              documents |-> documents \o texts,
              metadata |-> metadata \o [i \in 1..Len(docs) |-> docs[i].metadata[1]],
              raised |-> "none"]

\* a call of `name` that runs add_documents(docs) and returns value
IndexerCall(name, docs, fail, value) ==
    /\ ~saving
    /\ Len(documents) + Len(docs) <= MaxStore
    /\ LET r == add_documents(docs, fail) IN
       /\ index' = r.index
       /\ documents' = r.documents
       /\ metadata' = r.metadata
       /\ ret' = [call |-> name, raised |-> r.raised,
                  value |-> IF r.raised = "none" THEN value ELSE None]
    /\ UNCHANGED <<pipelineVars, kbVars, chunkVars, saving, diskVars, retriever, loading>>

Fails == {"none", "encode", "add"}

AddDocuments ==
    \E docs \in SeqsUpTo(Dicts, MaxStore), fail \in Fails :
        IndexerCall("add_documents", docs, fail, None)

\* 218-234: blank content returns at once
AddDocument ==
    \E c \in Contents \cup {""}, fail \in Fails :
        IndexerCall("add_document", IF c = "" THEN << >> ELSE <<Chunk(c)>>, fail, None)

\* 179-198: the chunks of the files that exist and have text
BuildIndexFromFiles ==
    \E cs \in SeqsUpTo(Contents, MaxStore), fail \in Fails :
        IndexerCall("build_index_from_files", [i \in 1..Len(cs) |-> Chunk(cs[i])],
                    fail, Some(Len(cs)))

\* 200-216
BuildIndexFromTranscripts ==
    \E cs \in SeqsUpTo(Contents, MaxStore), fail \in Fails :
        IndexerCall("build_index_from_transcripts",
                    [i \in 1..Len(cs) |-> Chunk(cs[i])], fail, Some(Len(cs)))

\* 156-166: nothing to save, or the index artifact is written
SaveIndexBegin ==
    /\ ~saving
    /\ IF index = None
       THEN /\ ret' = [call |-> "save_index", raised |-> "none", value |-> None]
            /\ UNCHANGED <<saving, index_file>>
       ELSE /\ index_file' = [state |-> "ok", vectors |-> index[1]]
            /\ saving' = TRUE
            /\ UNCHANGED ret
    /\ UNCHANGED <<pipelineVars, kbVars, chunkVars, index, documents, metadata,
                   metadata_file, retriever, loading>>

\* 169-177: the metadata artifact is written
SaveIndexEnd ==
    /\ saving
    /\ metadata_file' = [state |-> "ok", documents |-> documents, metadata |-> metadata]
    /\ saving' = FALSE
    /\ ret' = [call |-> "save_index", raised |-> "none", value |-> None]
    /\ UNCHANGED <<pipelineVars, kbVars, chunkVars, index, documents, metadata,
                   index_file, retriever, loading>>

(***************************************************************************)
(* DocumentRetriever.load_index, rag/retriever.py 18-40, in the steps       *)
(* another thread or process can interleave with: the existence check, the  *)
(* read of the index artifact, the read of the metadata artifact.  A read   *)
(* may fail (an artifact that is not readable); the except clause returns   *)
(* False.                                                                   *)
(***************************************************************************)
LoadReturns(value) == [call |-> "load_index", raised |-> "none", value |-> value]

\* 21-23
LoadIndexBegin ==
    /\ loading = "idle"
    /\ IF index_file.state = "missing" \/ metadata_file.state = "missing"
       THEN ret' = LoadReturns(FALSE) /\ UNCHANGED loading
       ELSE loading' = "checked" /\ UNCHANGED ret
    /\ UNCHANGED <<pipelineVars, kbVars, chunkVars, indexerVars, diskVars, retriever>>

\* 26
LoadIndexRead ==
    /\ loading = "checked"
    /\ \E readable \in BOOLEAN :
          IF readable
          THEN /\ retriever' = [retriever EXCEPT !.index = Some(index_file.vectors)]
               /\ loading' = "index_read"
               /\ UNCHANGED ret
          ELSE /\ ret' = LoadReturns(FALSE)
               /\ loading' = "idle"
               /\ UNCHANGED retriever
    /\ UNCHANGED <<pipelineVars, kbVars, chunkVars, indexerVars, diskVars>>

\* a load that marks the retriever loaded whatever the read gave
LoadedAfterRead(readable) == TRUE

\* 29-36: is_loaded is set after both reads succeeded
LoadedAfter(readable) == readable

\* 29-40
LoadMetadataRead ==
    /\ loading = "index_read"
    /\ \E readable \in BOOLEAN :
          /\ retriever' =
                [retriever EXCEPT
                   !.documents = IF readable THEN metadata_file.documents ELSE @,
                   !.metadata = IF readable THEN metadata_file.metadata ELSE @,
                   !.is_loaded = @ \/ LoadedAfter(readable)]
          /\ ret' = LoadReturns(readable)
    /\ loading' = "idle"
    /\ UNCHANGED <<pipelineVars, kbVars, chunkVars, indexerVars, diskVars>>

(***************************************************************************)
(* DocumentRetriever.search, rag/retriever.py 42-73.                        *)
(***************************************************************************)
Queries == {<< >>, <<" ">>, <<" ", "b">>}
Scores == 0..MaxScore
Pad == [score |-> -1, idx |-> -1]

\* self.index.search(query_embedding, top_k) of a flat inner-product index:
\* the top_k positions (from 0) by decreasing similarity, padded with -1.
\* sim is the similarity of the query to each stored text.
index_search(vectors, sim, top_k) ==
    LET n == Len(vectors)
        m == IF top_k < n THEN top_k ELSE n
        score(i) == sim[vectors[i].vec]
        best == {p \in [1..m -> 1..n] :
                   /\ \A i, j \in 1..m : i < j => p[i] # p[j] /\ score(p[i]) >= score(p[j])
                   /\ \A i \in 1..n : (\A j \in 1..m : p[j] # i) =>
                                         \A j \in 1..m : score(p[j]) >= score(i)}
    IN  {[i \in 1..top_k |->
            IF i <= m THEN [score |-> score(p[i]), idx |-> p[i] - 1] ELSE Pad] :
         p \in best}

\* a filter that keeps the candidates at or under the threshold too
Kept_all(hit, score_threshold) == hit.idx # -1

\* 62
Kept(hit, score_threshold) == hit.idx # -1 /\ hit.score > score_threshold

\* 59-69: the loop over the candidates; a position outside a list raises
\* IndexError, which 71-73 turn into the empty list
search_results(r, hits, score_threshold) ==
    LET kept == SelectSeq(hits, LAMBDA h : Kept(h, score_threshold))
    IN  IF \E i \in 1..Len(kept) :
              kept[i].idx + 1 > Len(r.documents) \/ kept[i].idx + 1 > Len(r.metadata)
        THEN [error |-> "IndexError", value |-> << >>]
        ELSE [error |-> "none",
              value |-> [i \in 1..Len(kept) |->
                           [content |-> r.documents[kept[i].idx + 1],
                            metadata |-> r.metadata[kept[i].idx + 1],
                            score |-> kept[i].score]]]

\* the candidates a search may get from the index, for any similarity of
\* the query to the stored texts; none when faiss rejects top_k = 0
Candidates(r, top_k) ==
    IF ~r.is_loaded \/ top_k = 0 THEN {<< >>}
    ELSE UNION {index_search(r.index[1], sim, top_k) : sim \in [Contents -> Scores]}

\* none either when the code does not reach line 57
CandidatesFor(query, found) == IF strip(query) = << >> THEN {<< >>} ELSE found

search(r, query, top_k, score_threshold, hits) ==
    IF ~r.is_loaded THEN [error |-> "none", value |-> << >>]
    ELSE IF strip(query) = << >> THEN [error |-> "none", value |-> << >>]
    ELSE IF top_k = 0 THEN [error |-> "AssertionError", value |-> << >>]
    ELSE search_results(r, hits, score_threshold)

Search ==
    /\ loading = "idle"
    /\ \E top_k \in 0..MaxTopK :
          LET found == Candidates(retriever, top_k) IN
          \E query \in Queries, score_threshold \in Scores :
             \E hits \in CandidatesFor(query, found) :
                LET out == search(retriever, query, top_k, score_threshold, hits) IN
                ret' = [call |-> "search", raised |-> "none", value |-> out.value,
                        error |-> out.error, query |-> query, top_k |-> top_k,
                        score_threshold |-> score_threshold, hits |-> hits]
    /\ UNCHANGED <<pipelineVars, kbVars, chunkVars, indexerVars, diskVars, retriever, loading>>

\* 147-160: one rendered part per result, joined; the text is empty when
\* there is no part
format_context(found) ==
    [i \in 1..Len(found) |->
        [document |-> i, source |-> found[i].metadata.file_name,
         content |-> found[i].content, relevance |-> found[i].score]]

\* 137-160, called as RAGSystem.search_for_context does (top_k given, the
\* threshold left to its default)
SemanticSearchContext ==
    /\ loading = "idle"
    /\ \E top_k \in 1..MaxTopK :
          LET found == Candidates(retriever, top_k) IN
          \E query \in Queries :
             \E hits \in CandidatesFor(query, found) :
                LET out == search(retriever, query, top_k, DefaultThreshold, hits) IN
                ret' = [call |-> "semantic_search_context", raised |-> "none",
                        value |-> IF out.value = << >> THEN << >>
                                  ELSE format_context(out.value),
                        results |-> out.value, query |-> query]
    /\ UNCHANGED <<pipelineVars, kbVars, chunkVars, indexerVars, diskVars, retriever, loading>>

(***************************************************************************)
(* One indexer that is given documents and saves, and one retriever that    *)
(* loads, each at its own pace.                                             *)
(***************************************************************************)
InitIndexer == InitWith(0, 0, FALSE)

NextIndexer ==
    \/ AddDocuments
    \/ AddDocument
    \/ BuildIndexFromFiles
    \/ BuildIndexFromTranscripts
    \/ SaveIndexBegin
    \/ SaveIndexEnd
    \/ LoadIndexBegin
    \/ LoadIndexRead
    \/ LoadMetadataRead

SpecIndexer == InitIndexer /\ [][NextIndexer]_vars

(***************************************************************************)
(* A retriever over any pair of artifacts on disk, present or missing, with *)
(* no writer.                                                               *)
(***************************************************************************)
IndexFiles ==
    {Missing} \cup {[state |-> "ok", vectors |-> encode(cs)] :
                       cs \in SeqsUpTo(Contents, MaxStore)}

MetadataFiles ==
    {Missing} \cup {[state |-> "ok", documents |-> cs,
                     metadata |-> [i \in 1..Len(cs) |-> Meta(cs[i])]] :
                       cs \in SeqsUpTo(Contents, MaxStore)}

InitRetriever ==
    /\ PipelineInit(0, 0, FALSE)
    /\ ChunkIdle
    /\ KbIdle
    /\ NewIndexer
    /\ index_file \in IndexFiles
    /\ metadata_file \in MetadataFiles
    /\ retriever = NewRetriever
    /\ loading = "idle"
    /\ ret = NoCall

NextRetriever ==
    \/ LoadIndexBegin
    \/ LoadIndexRead
    \/ LoadMetadataRead
    \/ Search
    \/ SemanticSearchContext

SpecRetriever == InitRetriever /\ [][NextRetriever]_vars

(***************************************************************************)
(* DocumentRetriever.find_relevant_context, rag/retriever.py 162-197, and   *)
(* RAGSystem.multi_query_context, 220-225.                                  *)
(***************************************************************************)
\* queries of one call
MaxQueries == 2
\* largest similarity of a query of such a call to a stored text, in tenths
MaxSimilarity == 3

\* similarities from the default threshold up: a result at the threshold is
\* dropped, one above it is kept
Similarities == DefaultThreshold..MaxSimilarity
ContextQueries == {<<" ">>, <<"a">>, <<" ", "b">>}
QueryLists == SeqsUpTo(ContextQueries, MaxQueries)

\* what the index may return to one query of the list
ContextCandidates(r, query, top_k) ==
    IF ~r.is_loaded \/ strip(query) = << >> THEN {<< >>}
    ELSE UNION {index_search(r.index[1], sim, top_k) :
                   sim \in [Contents -> Similarities]}

\* 171: self.search(query, top_k_per_query) for each query of the list, the
\* threshold left to its default
per_query(r, queries, top_k, hits) ==
    [i \in 1..Len(queries) |->
        search(r, queries[i], top_k, DefaultThreshold, hits[i]).value]

RECURSIVE concat(_)
concat(lists) ==
    IF lists = << >> THEN << >> ELSE Head(lists) \o concat(Tail(lists))

\* a loop that appends every result
unseen_none(found, seen_content) == found

\* 172-176: a result is appended unless its content was seen
RECURSIVE unseen(_, _)
unseen(found, seen_content) ==
    IF found = << >> THEN << >>
    ELSE IF Head(found).content \in seen_content
         THEN unseen(Tail(found), seen_content)
         ELSE <<Head(found)>>
                  \o unseen(Tail(found), seen_content \cup {Head(found).content})

\* 179: list.sort(key = score, reverse = True), which is stable
RECURSIVE sort_by_score(_)
sort_by_score(found) ==
    IF found = << >> THEN << >>
    ELSE LET n == Len(found)
             sorted == sort_by_score(SubSeq(found, 1, n - 1))
             x == found[n]
         IN  SelectSeq(sorted, LAMBDA y : y.score >= x.score)
                 \o <<x>>
                 \o SelectSeq(sorted, LAMBDA y : y.score < x.score)

\* 167-179
all_results(lists) == sort_by_score(unseen(concat(lists), {}))

\* result["metadata"].get(key, "unknown")
get(dict, key) == IF key \in DOMAIN dict THEN dict[key] ELSE "unknown"

\* 182-197: one rendered part per result, joined; "" when there is none
format_parts(found) ==
    [i \in 1..Len(found) |->
        [document |-> i, source |-> get(found[i].metadata, "file_name"),
         type |-> get(found[i].metadata, "doc_type"),
         content |-> found[i].content, relevance |-> found[i].score]]

\* the candidates of each query of the list; a query that occurs twice gets
\* the same candidates
RECURSIVE ContextHits(_, _, _)
ContextHits(queries, found, done) ==
    IF queries = << >> THEN {<< >>}
    ELSE LET q == Head(queries)
             mine == IF q \in DOMAIN done THEN {done[q]} ELSE found[q]
         IN  UNION {{<<h>> \o rest :
                       rest \in ContextHits(Tail(queries), found, (q :> h) @@ done)} :
                    h \in mine}

\* RAGSystem.multi_query_context: the message when no index was loaded, else
\* find_relevant_context.  The call reads the retriever and writes nothing,
\* so a call after another reaches no state the first call cannot reach: one
\* call is taken from each state of the retriever.
MultiQueryContext ==
    /\ loading = "idle"
    /\ ret = NoCall
    /\ \E top_k \in 1..MaxTopK :
          LET found == [q \in ContextQueries |->
                          ContextCandidates(retriever, q, top_k)] IN
          \E queries \in QueryLists :
             \E hits \in ContextHits(queries, found, << >>) :
                LET lists == per_query(retriever, queries, top_k, hits)
                    merged == all_results(lists)
                IN  ret' = [call |-> "multi_query_context", raised |-> "none",
                            ready |-> retriever.is_loaded,
                            message |-> IF retriever.is_loaded THEN ""
                                        ELSE "No documents indexed yet.",
                            value |-> IF retriever.is_loaded
                                      THEN format_parts(merged) ELSE << >>,
                            merged |-> IF retriever.is_loaded THEN merged ELSE << >>,
                            lists |-> lists, queries |-> queries, top_k |-> top_k]
    /\ UNCHANGED <<pipelineVars, kbVars, chunkVars, indexerVars, diskVars, retriever, loading>>

\* RAGSystem.__init__, 203-211: the index and the metadata an indexer saved
\* are loaded when both files exist
Loaded(cs) ==
    [index |-> Some(encode(cs)), documents |-> cs,
     metadata |-> [i \in 1..Len(cs) |-> Meta(cs[i])], is_loaded |-> TRUE]

InitContext ==
    /\ PipelineInit(0, 0, FALSE)
    /\ ChunkIdle
    /\ KbIdle
    /\ NewIndexer
    /\ \E cs \in SeqsUpTo(Contents, MaxStore) :
          \/ /\ index_file = Missing
             /\ metadata_file = Missing
             /\ retriever = NewRetriever
          \/ /\ cs # << >>
             /\ index_file = [state |-> "ok", vectors |-> encode(cs)]
             /\ metadata_file = [state |-> "ok", documents |-> cs,
                                 metadata |-> [i \in 1..Len(cs) |-> Meta(cs[i])]]
             /\ retriever = Loaded(cs)
    /\ loading = "idle"
    /\ ret = NoCall

NextContext == MultiQueryContext

SpecContext == InitContext /\ [][NextContext]_vars

(***************************************************************************)
(* ResearchKnowledgeBase, knowledge_base/research_kb.py.  Time is counted   *)
(* in days; a dict is a function on its keys.                               *)
(***************************************************************************)
\* project analyses a store is given
MaxAnalyses == 2
DefaultDaysOld == 30

RepoUrls == {"https://github.com/a/x", "https://github.com/b/y"}
PaperUrls == {"https://arxiv.org/abs/1"}
Descriptions == {"p"}
Stars == {1, 2}
Titles == {"t1", "t2"}
Days == 0..40
\* the days on which the store is called: an entry of the first day is 30
\* days old on the second and 40 days old on the third
CallDays == {0, 30, 40}

\* hashlib.md5(content.encode('utf-8')).hexdigest()[:12] of the contents the
\* model hashes
Digests ==
    {<<"", "d41d8cd98f00">>,
     <<"https://github.com/a/x", "3ed0de889bbc">>,
     <<"https://github.com/b/y", "4002316b2090">>,
     <<"https://arxiv.org/abs/1", "4d813add29e9">>,
     <<"p2026-01-01T00:00:00", "8a0c49411710">>,
     <<"p2026-01-31T00:00:00", "c70077287d5a">>,
     <<"p2026-02-10T00:00:00", "e55ff46260d8">>}

\* 56-58
_generate_id(content) == (CHOOSE d \in Digests : d[1] = content)[2]

\* datetime.fromisoformat(str), as the day it names
fromisoformat(str) ==
    IF \E t \in Days : isoformat(t) = str
    THEN Returns(CHOOSE t \in Days : isoformat(t) = str)
    ELSE Raises("ValueError")

\* dict.get(key, default), dict[key] = value, del dict[key] for each key of
\* a list, len(dict)
get_or(dict, key, default) == IF key \in DOMAIN dict THEN dict[key] ELSE default

put(dict, key, value) ==
    [k \in DOMAIN dict \cup {key} |-> IF k = key THEN value ELSE dict[k]]

remove(dict, keys) == [k \in DOMAIN dict \ keys |-> dict[k]]

len(dict) == Cardinality(DOMAIN dict)

\* json.dump and json.load of the store
json_dump(obj) == [json |-> obj]
json_load(str) == str.json

\* 16-38: the document of the file, a new store when there is no file, and
\* a new store too when the file cannot be parsed
_load_knowledge_base(file, t) ==
    IF file.state = "ok" THEN json_load(file.text) ELSE EmptyKB(t)

\* the dicts the crawler hands over: a repository may come with url, with
\* html_url only, with an empty url, or with neither
RepoDicts ==
    {[url |-> "https://github.com/a/x", stars |-> s] : s \in Stars}
        \cup {[url |-> "https://github.com/b/y", stars |-> 1],
              [html_url |-> "https://github.com/a/x", stars |-> 1],
              [url |-> "", html_url |-> "https://github.com/a/x", stars |-> 1],
              [stars |-> 1]}

PaperDicts ==
    {[url |-> u, title |-> t] : u \in PaperUrls, t \in Titles}
        \cup {[url |-> "", title |-> "t1"], [title |-> "t1"]}

AnalysisResults == {[total_projects_found |-> 1]}

\* what may raise inside a store call: building the entry (a value of the
\* wrong type, e.g. 97), or the vector indexer ("encode", "add")
KBFails ==
    IF vector_indexer = None THEN {"none", "TypeError"}
    ELSE {"none", "TypeError", "encode", "add"}

Unstored(kb) == [kb |-> kb, value |-> None]

\* a store that appends the entry under the next free key
store_append(kb, kind, total, key, entry, t) ==
    LET fresh == key \o "-" \o ToString(len(kb[kind]))
        stored == put(kb[kind], fresh, entry)
    IN  [kb EXCEPT ![kind] = stored,
                   !.metadata[total] = len(stored),
                   !.metadata.last_updated = isoformat(t)]

\* 101-104, 152-155, 184-187: the entry is put under its id, the counter is
\* the size of the dict, last_updated is the time
store(kb, kind, total, key, entry, t) ==
    LET stored == put(kb[kind], key, entry)
    IN  [kb EXCEPT ![kind] = stored,
                   !.metadata[total] = len(stored),
                   !.metadata.last_updated = isoformat(t)]

\* a test no url fails
falsy_never(str) == FALSE

\* 64, 120: not url
falsy(str) == str = ""

\* 62-104, 110-114
store_repo(kb, repo_data, project_context, t, fail) ==
    LET repo_url == get_or(repo_data, "url", get_or(repo_data, "html_url", ""))
    IN  IF falsy(repo_url) \/ fail = "TypeError" THEN Unstored(kb)
        ELSE LET repo_id == _generate_id(repo_url)
                 enhanced_repo_data ==
                     [id |-> repo_id, stored_at |-> isoformat(t),
                      project_context |-> project_context,
                      repository_info |->
                          [url |-> repo_url, stars |-> get_or(repo_data, "stars", 0)]]
             IN  [kb |-> store(kb, "github_repositories", "total_github_repos",
                               repo_id, enhanced_repo_data, t),
                  value |-> Some(repo_id)]

\* 118-155, 161-165
store_paper(kb, paper_data, project_context, t, fail) ==
    LET paper_url == get_or(paper_data, "url", "")
    IN  IF falsy(paper_url) \/ fail = "TypeError" THEN Unstored(kb)
        ELSE LET paper_id == _generate_id(paper_url)
                 enhanced_paper_data ==
                     [id |-> paper_id, stored_at |-> isoformat(t),
                      project_context |-> project_context,
                      paper_info |->
                          [url |-> paper_url, title |-> get_or(paper_data, "title", "")]]
             IN  [kb |-> store(kb, "research_papers", "total_research_papers",
                               paper_id, enhanced_paper_data, t),
                  value |-> Some(paper_id)]

\* 169-193: the id is the hash of the description followed by the time
store_analysis(kb, project_data, analysis_results, t, fail) ==
    IF fail = "TypeError" THEN Unstored(kb)
    ELSE LET project_id == _generate_id(project_data \o isoformat(t))
             analysis_data ==
                 [id |-> project_id, analyzed_at |-> isoformat(t),
                  project_description |-> project_data,
                  total_github_repos |->
                      get_or(analysis_results, "total_projects_found", 0)]
         IN  [kb |-> store(kb, "project_analyses", "total_projects_analyzed",
                           project_id, analysis_data, t),
              value |-> Some(project_id)]

\* 400-403, 409-412: the keys of the entries stored before the cutoff
old(dict, cutoff_date) ==
    {k \in DOMAIN dict : fromisoformat(dict[k].stored_at).value < cutoff_date}

Malformed(dict) ==
    \E k \in DOMAIN dict : fromisoformat(dict[k].stored_at).raised # "none"

\* 396-425: the first list raises before anything is deleted; the second
\* list raises after the old repositories were deleted and before the
\* counters are set; the handler prints the exception
clear_old_data(kb, days_old, t) ==
    LET cutoff_date == t - days_old
        repos == kb.github_repositories
        papers == kb.research_papers
    IN  IF Malformed(repos) THEN kb
        ELSE LET kept_repos == remove(repos, old(repos, cutoff_date)) IN
             IF Malformed(papers)
             THEN [kb EXCEPT !.github_repositories = kept_repos]
             ELSE LET kept_papers == remove(papers, old(papers, cutoff_date)) IN
                  [kb EXCEPT !.github_repositories = kept_repos,
                             !.research_papers = kept_papers,
                             !.metadata.total_github_repos = len(kept_repos),
                             !.metadata.total_research_papers = len(kept_papers),
                             !.metadata.last_updated = isoformat(t)]

\* 106-108, 158-159 and 206-283: the entry goes to the vector indexer when
\* there is one; what add_document raises is printed
StoreInVectorDb(out, doc_type, url, fail) ==
    IF out.value = None \/ vector_indexer = None
    THEN UNCHANGED <<index, documents, metadata>>
    ELSE LET document == [content |-> out.value,
                          metadata |-> Some([doc_type |-> doc_type, source |-> url])]
             r == add_documents(<<document>>, fail)
         IN  /\ index' = r.index
             /\ documents' = r.documents
             /\ metadata' = r.metadata

\* the vector indexer of the model takes MaxStore documents
Room == vector_indexer # None => Len(documents) < MaxStore

\* replaced: the id the call returned was a key of the dict before the call
StoreCall(name, kind, out, arg) ==
    /\ knowledge_base' = out.kb
    /\ ret' = [call |-> name, raised |-> "none", value |-> out.value, arg |-> arg,
               replaced |-> /\ out.value # None
                            /\ out.value[1] \in DOMAIN knowledge_base[kind]]

store_github_repository(repo_data, project_context, fail) ==
    LET out == store_repo(knowledge_base, repo_data, project_context, now, fail) IN
    /\ StoreCall("store_github_repository", "github_repositories", out, repo_data)
    /\ StoreInVectorDb(out, "github_repository",
                       get_or(repo_data, "url", get_or(repo_data, "html_url", "")), fail)

store_research_paper(paper_data, project_context, fail) ==
    LET out == store_paper(knowledge_base, paper_data, project_context, now, fail) IN
    /\ StoreCall("store_research_paper", "research_papers", out, paper_data)
    /\ StoreInVectorDb(out, "research_paper", get_or(paper_data, "url", ""), fail)

store_project_analysis(project_data, analysis_results, fail) ==
    LET out == store_analysis(knowledge_base, project_data, analysis_results, now, fail)
    IN  /\ StoreCall("store_project_analysis", "project_analyses", out,
                     [project_data |-> project_data,
                      analysis_results |-> analysis_results])
        /\ UNCHANGED <<index, documents, metadata>>

\* the variables no call on the store writes
storeFrame == <<pipelineVars, chunkVars, saving, diskVars, retriever, loading,
                vector_indexer>>

StoreGithubRepository ==
    /\ Room
    /\ \E repo_data \in RepoDicts, project_context \in Descriptions, fail \in KBFails :
          store_github_repository(repo_data, project_context, fail)
    /\ UNCHANGED <<storeFrame, json_file, now, crawl>>

StoreResearchPaper ==
    /\ Room
    /\ \E paper_data \in PaperDicts, project_context \in Descriptions, fail \in KBFails :
          store_research_paper(paper_data, project_context, fail)
    /\ UNCHANGED <<storeFrame, json_file, now, crawl>>

StoreProjectAnalysis ==
    /\ \E project_data \in Descriptions, analysis_results \in AnalysisResults,
          fail \in {"none", "TypeError"} :
          /\ \/ len(knowledge_base.project_analyses) < MaxAnalyses
             \/ fail # "none"
             \/ _generate_id(project_data \o isoformat(now))
                   \in DOMAIN knowledge_base.project_analyses
          /\ store_project_analysis(project_data, analysis_results, fail)
    /\ UNCHANGED <<storeFrame, json_file, now, crawl>>

ClearOldData ==
    /\ \E days_old \in {0, DefaultDaysOld} :
          /\ knowledge_base' = clear_old_data(knowledge_base, days_old, now)
          /\ ret' = [call |-> "clear_old_data", raised |-> "none", value |-> None,
                     arg |-> days_old]
    /\ UNCHANGED <<storeFrame, index, documents, metadata, json_file, now, crawl>>

\* days pass
Tick ==
    /\ now' \in {t \in CallDays : t > now}
    /\ UNCHANGED <<storeFrame, index, documents, metadata, ret, knowledge_base,
                   json_file, crawl>>

\* a store whose file was written by hand or by another program: the
\* counters match, an entry has a stored_at that is no date
BadStamp == "yesterday"

BadPaper(u) ==
    [id |-> _generate_id(u), stored_at |-> BadStamp, project_context |-> "p",
     paper_info |-> [url |-> u, title |-> "t1"]]

BadRepo(u) ==
    [id |-> _generate_id(u), stored_at |-> BadStamp, project_context |-> "p",
     repository_info |-> [url |-> u, stars |-> 1]]

StoredFiles ==
    {Missing}
        \cup {[state |-> "ok",
               text |-> json_dump(store(EmptyKB(0), "research_papers",
                                        "total_research_papers", _generate_id(u),
                                        BadPaper(u), 0))] : u \in PaperUrls}
        \cup {[state |-> "ok",
               text |-> json_dump(store(EmptyKB(0), "github_repositories",
                                        "total_github_repos", _generate_id(u),
                                        BadRepo(u), 0))] :
                 u \in {"https://github.com/b/y"}}

\* ResearchKnowledgeBase.__init__, 10-14, vector_indexer left to its default
InitKB ==
    /\ PipelineInit(0, 0, FALSE)
    /\ ChunkIdle
    /\ RagIdle
    /\ json_file \in StoredFiles
    /\ now = 0
    /\ vector_indexer = None
    /\ knowledge_base = _load_knowledge_base(json_file, now)
    /\ crawl = CrawlIdle

NextKB ==
    \/ StoreGithubRepository
    \/ StoreResearchPaper
    \/ StoreProjectAnalysis
    \/ ClearOldData
    \/ Tick

SpecKB == InitKB /\ [][NextKB]_vars

(***************************************************************************)
(* CrawlerAgent._store_research_in_knowledge_base, agents/crawler_agent.py  *)
(* 616-664, one call of the store at a step, on the store and the vector    *)
(* indexer CrawlerAgent.__init__ creates (33-41).  The process may stop at  *)
(* any step; the next one starts from the file.                             *)
(***************************************************************************)
\* repositories and papers of one invocation
MaxProjects == 2
MaxPapers == 1

\* 285-298: what may raise in save_knowledge_base: os.makedirs, before the
\* file is opened, or json.dump, after open(path, 'w') emptied it
SaveFails == {"none", "makedirs", "dump"}

written(kb, file, fail) ==
    IF fail = "none" THEN [state |-> "ok", text |-> json_dump(kb)]
    ELSE IF fail = "dump" THEN [state |-> "partial"]
    ELSE file

\* a condition that saves after every invocation
ShouldSaveAlways(c) == TRUE

\* 656
ShouldSave(c) == c.stored_repos > 0 \/ c.stored_papers > 0

\* 631-632, 643-644
Counted(value) == IF value # None THEN 1 ELSE 0

\* what the crawler found: a repository with its url or with none, a paper
\* with its url or with none
FoundRepos == {[url |-> "https://github.com/a/x", stars |-> 1], [stars |-> 1]}
FoundPapers == {[url |-> "https://arxiv.org/abs/1", title |-> "t1"], [title |-> "t1"]}

crawlFrame == <<pipelineVars, chunkVars, saving, diskVars, retriever, loading,
                vector_indexer>>

\* 621-623; an invocation is made on a later day than the one before
StoreResearchBegin ==
    /\ crawl.pc = "idle"
    /\ now' \in {t \in CallDays : t > now}
    /\ \E projects \in SeqsUpTo(FoundRepos, MaxProjects),
          papers \in SeqsUpTo(FoundPapers, MaxPapers),
          project_description \in Descriptions,
          research_results \in AnalysisResults :
          /\ Len(documents) + Len(projects) + Len(papers) <= MaxStore
          /\ crawl' = [pc |-> "store", projects |-> projects, papers |-> papers,
                       project_description |-> project_description,
                       research_results |-> research_results,
                       stored_repos |-> 0, stored_papers |-> 0,
                       returned |-> << >>, analysis |-> None]
    /\ UNCHANGED <<crawlFrame, index, documents, metadata, ret, knowledge_base,
                   json_file>>

\* 626-635
StoreResearchRepo ==
    /\ crawl.pc = "store"
    /\ crawl.projects # << >>
    /\ \E fail \in KBFails :
          store_github_repository(Head(crawl.projects), crawl.project_description, fail)
    /\ crawl' = [crawl EXCEPT !.projects = Tail(@),
                              !.stored_repos = @ + Counted(ret'.value),
                              !.returned = Append(@, ret'.value)]
    /\ UNCHANGED <<crawlFrame, json_file, now>>

\* 638-647
StoreResearchPaperStep ==
    /\ crawl.pc = "store"
    /\ crawl.projects = << >>
    /\ crawl.papers # << >>
    /\ \E fail \in KBFails :
          store_research_paper(Head(crawl.papers), crawl.project_description, fail)
    /\ crawl' = [crawl EXCEPT !.papers = Tail(@),
                              !.stored_papers = @ + Counted(ret'.value),
                              !.returned = Append(@, ret'.value)]
    /\ UNCHANGED <<crawlFrame, json_file, now>>

\* 650-653
StoreResearchAnalysis ==
    /\ crawl.pc = "store"
    /\ crawl.projects = << >>
    /\ crawl.papers = << >>
    /\ \E fail \in {"none", "TypeError"} :
          store_project_analysis(crawl.project_description, crawl.research_results,
                                 fail)
    /\ crawl' = [crawl EXCEPT !.pc = "save", !.analysis = ret'.value]
    /\ UNCHANGED <<crawlFrame, json_file, now>>

\* 656-661, and the return
StoreResearchSave ==
    /\ crawl.pc = "save"
    /\ \E fail \in SaveFails :
          /\ json_file' = IF ShouldSave(crawl)
                          THEN written(knowledge_base, json_file, fail)
                          ELSE json_file
          /\ ret' = [call |-> "_store_research_in_knowledge_base",
                     raised |-> "none", value |-> None,
                     save_called |-> ShouldSave(crawl),
                     success |-> ShouldSave(crawl) /\ fail = "none",
                     returned |-> crawl.returned, analysis |-> crawl.analysis]
    /\ crawl' = CrawlIdle
    /\ UNCHANGED <<crawlFrame, index, documents, metadata, knowledge_base, now>>

\* CrawlerAgent.clear_old_research_data, 715-722: prune, then save
ClearOldResearchData ==
    /\ crawl.pc = "idle"
    /\ \E days_old \in {0, DefaultDaysOld}, fail \in SaveFails :
          /\ knowledge_base' = clear_old_data(knowledge_base, days_old, now)
          /\ json_file' = written(knowledge_base', json_file, fail)
          /\ ret' = [call |-> "clear_old_research_data", raised |-> "none",
                     value |-> None, arg |-> days_old]
    /\ UNCHANGED <<crawlFrame, index, documents, metadata, crawl, now>>

\* the process stops; CrawlerAgent.__init__ of the next one, 33-41, makes a
\* new indexer and loads the store from the file
Restart ==
    /\ index' = None
    /\ documents' = << >>
    /\ metadata' = << >>
    /\ knowledge_base' = _load_knowledge_base(json_file, now)
    /\ crawl' = CrawlIdle
    /\ ret' = [call |-> "__init__", raised |-> "none", value |-> None]
    /\ UNCHANGED <<crawlFrame, json_file, now>>

InitCrawler ==
    /\ PipelineInit(0, 0, FALSE)
    /\ ChunkIdle
    /\ RagIdle
    /\ json_file = Missing
    /\ now = 0
    /\ vector_indexer = Some("DocumentIndexer")
    /\ knowledge_base = _load_knowledge_base(json_file, now)
    /\ crawl = CrawlIdle

NextCrawler ==
    \/ StoreResearchBegin
    \/ StoreResearchRepo
    \/ StoreResearchPaperStep
    \/ StoreResearchAnalysis
    \/ StoreResearchSave
    \/ ClearOldResearchData
    \/ Restart

SpecCrawler == InitCrawler /\ [][NextCrawler]_vars

(***************************************************************************)
(* Properties.                                                              *)
(***************************************************************************)
InRun(t) == pc[t] \notin {"unborn", "start", "ret", "raised", "dead"}
Ended(t) == pc[t] \in {"ret", "raised"}
Cleared ==
    /\ current_results = None
    /\ process_status = "idle"
    /\ current_process = None

\* C1: after /api/clear and until a new run is requested, current_results
\* stays None, process_status stays "idle" and current_process stays None,
\* whatever the background thread that was in flight does.
C1_ResetIsKept == reset => Cleared

\* C2: there is never a state in which two background threads are both
\* executing process_project_comprehensive.
C2_AtMostOneRun == Cardinality({t \in Threads : InRun(t)}) <= 1

\* C3: a /api/process request that arrives while a background run thread is
\* alive is rejected: no handler gets past the is_alive check having arrived
\* with a run thread alive.
C3_RejectedWhileAlive == \A r \in Handlers : req[r].pc = "checked" => ~req[r].alive

\* C4: a run (not disturbed by a reset) in which one Tier-A task fails and
\* every other call succeeds ends with status "completed", failed_agents = 1
\* and a synthesis result with status "success".
C4_TierAFailureTolerated ==
    \A t \in Threads, k \in TierA :
        (Ended(t) /\ ~reset /\ faults = 1 /\ fut[t][k] = "error") =>
            /\ results[t].status = "completed"
            /\ results[t].summary # None
            /\ results[t].summary[1].failed_agents = 1
            /\ results[t].res["synthesis"] = "success"

\* C5: a run without an indexing request (and not disturbed by a reset) ends
\* with process_info.status = "completed" and process_status = "completed",
\* whichever agents failed.
C5_AlwaysCompleted ==
    \A t \in Threads :
        (Ended(t) /\ ~reset /\ results[t].res["indexing"] = "absent") =>
            /\ results[t].status = "completed"
            /\ process_status = "completed"

\* C6: every future and every stored agent result has status "success" or
\* "error"; an agent whose underlying call raised has a result with status
\* "error", which the run joins and stores like any other.
C6_AgentFailuresAreResults ==
    \A t \in Threads :
        /\ \A k \in PoolTasks : fut[t][k] \in {"none", "running", "success", "error"}
        /\ \A k \in AgentKeys : results[t].res[k] \in {"absent", "success", "error"}
        /\ \A k \in raised[t] :
              /\ k \in PoolTasks => fut[t][k] = "error"
              /\ results[t].res[k] \in {"absent", "error"}
              /\ pc[t] \in {"except", "raised"} => cause[t] \in {"TypeError", "AttributeError"}

\* C6 witness: the crawler call raised, its result was stored with status
\* "error", and the run went on to Tier B.
C6_Witness ==
    \E t \in Threads :
        /\ "crawler" \in raised[t]
        /\ results[t].res["crawler"] = "error"
        /\ pc[t] = "tierB"

\* C7: neither Tier-B task starts before both Tier-A tasks have returned, and
\* the synthesis task does not start before both Tier-B tasks have returned.
C7_TierBarriers ==
    \A t \in Threads :
        /\ (\E k \in TierB : fut[t][k] # "none") =>
              \A k \in TierA : fut[t][k] \in {"success", "error"}
        /\ (pc[t] = "synthesis" \/ results[t].res["synthesis"] # "absent") =>
              \A k \in TierB : fut[t][k] \in {"success", "error"}

\* C7 witness: a Tier-B task is running after a Tier-A task failed.
C7_Witness ==
    \E t \in Threads :
        /\ fut[t]["optimizer"] = "running"
        /\ fut[t]["blueprint"] = "error"
        /\ fut[t]["crawler"] = "success"

\* C8: when process_project_comprehensive has returned (and no reset
\* happened), process_status is "completed" or "error", never "running".
C8_LeavesRunning ==
    \A t \in Threads :
        (pc[t] = "ret" /\ ~reset) => process_status \in {"completed", "error"}

\* C9: while a background run is executing, current_results is None.
C9_NoPartialResults ==
    (\E t \in Threads : InRun(t)) => current_results = None

\* C10 as stated: when the indexing step processes no documents at all, the
\* run stops before Tier A, no agent is invoked and the status is "error".
C10_NoDocumentsAborts ==
    \A t \in Threads :
        results[t].res["indexing"] = "warning" =>
            /\ pc[t] = "ret"
            /\ results[t].status = "error"
            /\ fut[t] = NoFutures

\* C10 amended: when the indexing step fails with an exception (the index
\* result has status "error"), the run stops before Tier A, no agent is
\* invoked and process_info.status is "error"; an indexing step that
\* processes no documents yields a warning and does not stop the run: such a
\* run returns completed, unless an exception of a later step ended it.
C10_IndexErrorAborts ==
    \A t \in Threads :
        /\ results[t].res["indexing"] = "error" =>
              /\ pc[t] = "ret"
              /\ results[t].status = "error"
              /\ fut[t] = NoFutures
              /\ \A k \in AgentKeys : results[t].res[k] = "absent"
        /\ (results[t].res["indexing"] = "warning" /\ results[t].status = "error") =>
              cause[t] # "none"
        /\ (results[t].res["indexing"] = "warning" /\ pc[t] = "ret") =>
              (results[t].status = "completed" \/ cause[t] # "none")

\* C10 witness: a run that returned after a failed indexing step.
C10_Witness ==
    \E t \in Threads :
        /\ results[t].res["indexing"] = "error"
        /\ pc[t] = "ret"

\* C11: when the blueprint (resp. crawler) result has status "error", the
\* blueprint (resp. crawler) context string passed to the optimizer and echo
\* tasks is the empty string, and both Tier-B tasks are still started.
C11_EmptyContextOnError ==
    \A t \in Threads :
        ctx[t].blueprint_data_str # "unset" =>
            /\ results[t].res["blueprint"] = "error" =>
                  /\ optimizer_args(ctx[t]).context = ""
                  /\ echo_args(ctx[t]).context = ""
            /\ results[t].res["crawler"] = "error" =>
                  optimizer_args(ctx[t]).crawler_data = ""
            /\ \A k \in TierB : fut[t][k] # "none"

\* C12: during a single run without reset, steps_completed starts at 0,
\* changes only at the tier boundaries (the steps that submit Tier A, submit
\* Tier B, start the synthesis and finish the run), goes 0, 1, 3, 5, 7 in that
\* order, never decreases, never exceeds total_steps, and is total_steps
\* exactly when the run is completed.
C12_ProgressMonotone ==
    [][ (~reset' /\ current_process' # None) =>
          LET b == current_process'[1].steps_completed IN
          /\ b \in {0, 1, 3, 5, 7}
          /\ b <= total_steps
          /\ (b = total_steps) <=> (process_status' = "completed")
          /\ (b = total_steps) <=> (current_process'[1].current_step = "completed")
          /\ current_process = None => b = 0
          /\ current_process # None =>
                LET a == current_process[1].steps_completed IN
                /\ b >= a
                /\ b # a =>
                      /\ <<a, b>> \in {<<0, 1>>, <<1, 3>>, <<3, 5>>, <<5, 7>>}
                      /\ \E t \in Threads :
                            <<pc[t], pc'[t]>> \in
                                {<<"step1", "tierA">>, <<"step3", "tierB">>,
                                 <<"step5", "synthesis">>, <<"finish", "ret">>}
      ]_vars

\* C12 witness: an undisturbed run returned with every step counted.
C12_Witness ==
    \E t \in Threads :
        /\ pc[t] = "ret"
        /\ ~reset
        /\ current_process # None
        /\ current_process[1].steps_completed = total_steps

\* C13: in every summary, successful_agents is the number of non-indexing
\* entries with status "success", failed_agents the number of the other
\* non-indexing entries, their sum is total_agents_run, and the "indexing"
\* entry is not counted; the summary is there exactly for completed runs.
C13_SummaryCounts ==
    \A t \in Threads :
        /\ results[t].status = "completed" <=> results[t].summary # None
        /\ results[t].summary # None =>
              LET s == results[t].summary[1]
                  entries == {k \in ResultKeys \ {"indexing"} :
                                results[t].res[k] # "absent"}
              IN  /\ s.successful_agents =
                        Cardinality({k \in entries : results[t].res[k] = "success"})
                  /\ s.failed_agents =
                        Cardinality({k \in entries : results[t].res[k] # "success"})
                  /\ s.successful_agents + s.failed_agents = s.total_agents_run
                  /\ s.total_agents_run = Cardinality(entries)

\* C13 witness: a completed run with an indexing entry, a failed agent and a
\* successful one.
C13_Witness ==
    \E t \in Threads :
        /\ results[t].summary # None
        /\ results[t].res["indexing"] = "success"
        /\ results[t].res["blueprint"] = "error"
        /\ results[t].res["synthesis"] = "success"

\* C14: the report is a function of the values the agents returned and not
\* of the order in which the tasks of a tier finished: every stored Tier-A
\* and Tier-B entry is the value its own task returned, the strings handed
\* to Tier B and the payloads handed to synthesis are computed from the
\* values the Tier-A and Tier-B tasks returned, and the summary counts the
\* stored entries.  Two runs with the same return values therefore agree on
\* all of them, whichever task finished first.
C14_OrderIndependent ==
    \A t \in Threads :
        /\ \A k \in TierA \cup TierB :
              results[t].res[k] # "absent" => results[t].res[k] = fut[t][k]
        /\ ctx[t].blueprint_data_str # "unset" =>
              /\ ctx[t].blueprint_data_str = json_dumps(payload(fut[t]["blueprint"]))
              /\ ctx[t].crawler_data_str = json_dumps(payload(fut[t]["crawler"]))
        /\ ctx[t].synthesis # None =>
              \A k \in TierA \cup TierB : ctx[t].synthesis[1][k] = payload(fut[t][k])
        /\ results[t].summary # None =>
              results[t].summary[1].failed_agents =
                  Cardinality({k \in TierA \cup TierB \cup TierC : fut[t][k] = "error"})
                  + Cardinality({k \in {"synthesis", "analysis"} :
                                   results[t].res[k] = "error"})

\* C14 witness: a completed run in which the second task of each of the two
\* tiers returned before the first, with different values in Tier A.
C14_Witness ==
    \E t \in Threads :
        /\ results[t].status = "completed"
        /\ first[t] = {"crawler", "echo_analysis"}
        /\ fut[t]["blueprint"] = "error"
        /\ fut[t]["crawler"] = "success"

\* C15: for a text of n >= 1 words and 0 <= overlap < chunk_size, chunk_text
\* returns ceil(n / (chunk_size - overlap)) chunks; the k-th chunk (from 0) is
\* the words [k*step, k*step + chunk_size) of the text, cut at the end of the
\* text, separated by single blanks; every word is in a chunk; a chunk begins
\* with the last words of the chunk before it (overlap of them, or all its
\* words when it is shorter); the last chunk ends with the last word.  600
\* words with 500/50 give the windows that start at 0 and 450.  An empty or
\* blank text gives the empty list.
C15_ChunkWindows ==
    (chunks # None /\ overlap < chunk_size) =>
        LET out == chunks[1]
            words == split(text)
            n == Len(words)
            step == chunk_size - overlap
            count == Len(out.value)
            chunk(k) == split(out.value[k + 1])
            Min(x, y) == IF x < y THEN x ELSE y
        IN  /\ out.raised = "none"
            /\ n = 0 => out.value = << >>
            /\ n >= 1 =>
                  /\ count = (n + step - 1) \div step
                  /\ \A k \in 0..(count - 1) :
                        /\ Len(chunk(k)) = Min(chunk_size, n - k * step)
                        /\ \A i \in 1..Len(chunk(k)) : chunk(k)[i] = words[k * step + i]
                        /\ Len(out.value[k + 1]) =
                              Len(join(chunk(k)))
                        /\ out.value[k + 1] = strip(out.value[k + 1])
                        /\ \A i \in 1..(Len(out.value[k + 1]) - 1) :
                              ~(out.value[k + 1][i] = " " /\ out.value[k + 1][i + 1] = " ")
                  /\ \A i \in 1..n : \E k \in 0..(count - 1) :
                        /\ i - k * step \in 1..Len(chunk(k))
                        /\ chunk(k)[i - k * step] = words[i]
                  /\ \A k \in 0..(count - 2) :
                        LET m == Min(overlap, Len(chunk(k + 1))) IN
                        SubSeq(chunk(k + 1), 1, m) =
                            SubSeq(chunk(k), Len(chunk(k)) - m + 1, Len(chunk(k)))
                  /\ chunk(count - 1)[Len(chunk(count - 1))] = words[n]
            /\ range(0, 600, DefaultChunkSize - DefaultOverlap) = <<0, 450>>

\* C15 witness: four words chunked with window 3 and overlap 1 gave two
\* chunks, the second a partial window.
C15_Witness ==
    /\ chunks # None
    /\ Len(split(text)) = 4
    /\ chunk_size = 3
    /\ overlap = 1
    /\ Len(chunks[1].value) = 2
    /\ split(chunks[1].value[2]) = <<split(text)[3], split(text)[4]>>

C17_ReaderSeesPairs ==
    (/\ retriever.is_loaded
     /\ Len(Vectors) = Len(documents)
     /\ Len(documents) = Len(metadata)) =>
        /\ Len(retriever.index[1]) = Len(retriever.documents)
        /\ Len(retriever.index[1]) = Len(retriever.metadata)

\* C18: save_index on an indexer whose index is None ends with a
\* NoIndexError and writes neither artifact.
C18_SaveWithoutIndex ==
    (ret.call = "save_index" /\ index = None) =>
        /\ ret.raised = "NoIndexError"
        /\ index_file = Missing
        /\ metadata_file = Missing

\* C19: load_index never raises; it returns False and changes nothing when
\* an artifact is missing; whenever it returns False (an artifact missing or
\* not readable) a retriever that was not loaded is still not loaded, and it
\* returns True only with both artifacts read.  search never raises and
\* returns the empty list whenever the retriever is not loaded or the query
\* is empty or blank, for every top_k and threshold.  The context text of an
\* empty result list is the empty string.
C19_NeutralResults ==
    /\ [](/\ ret.call = "load_index" => ret.raised = "none"
          /\ ret.call = "search" =>
                /\ ret.raised = "none"
                /\ (~retriever.is_loaded \/ strip(ret.query) = << >>) =>
                      ret.value = << >> /\ ret.error = "none"
          /\ ret.call = "semantic_search_context" =>
                /\ ret.raised = "none"
                /\ ret.results = << >> => ret.value = << >>
                /\ (~retriever.is_loaded \/ strip(ret.query) = << >>) =>
                      ret.value = << >>)
    /\ [][ (loading' # loading \/ (ret' # ret /\ ret'.call = "load_index")) =>
             /\ (index_file.state = "missing" \/ metadata_file.state = "missing") =>
                   ret' = LoadReturns(FALSE) /\ retriever' = retriever
             /\ (loading' = "idle" /\ ret'.value = FALSE) =>
                   retriever'.is_loaded = retriever.is_loaded
             /\ (loading' = "idle" /\ ret'.value = TRUE) =>
                   /\ retriever'.is_loaded
                   /\ retriever'.index = Some(index_file.vectors)
                   /\ retriever'.documents = metadata_file.documents
                   /\ retriever'.metadata = metadata_file.metadata
       ]_vars

\* C19 witness: a non-blank search on a retriever whose load read the index
\* artifact and then failed on the metadata artifact; it returned the empty
\* list.
C19_Witness ==
    /\ ret.call = "search"
    /\ strip(ret.query) # << >>
    /\ ret.top_k > 0
    /\ retriever.index # None
    /\ retriever.index[1] # << >>
    /\ ~retriever.is_loaded
    /\ ret.value = << >>

C21_MergedOnce ==
    (ret.call = "multi_query_context" /\ ret.ready) =>
        LET merged == ret.merged
            lists == ret.lists
        IN  /\ \A i, j \in 1..Len(merged) :
                  i < j => merged[i].content # merged[j].content
            /\ \A q \in 1..Len(lists) : \A k \in 1..Len(lists[q]) :
                  \E i \in 1..Len(merged) : merged[i].content = lists[q][k].content
            /\ \A i \in 1..Len(merged) :
                  \E q \in 1..Len(lists) : \E k \in 1..Len(lists[q]) :
                     merged[i] = lists[q][k]
            /\ \A i, j \in 1..Len(merged) :
                  i < j => merged[i].score >= merged[j].score
            /\ Len(ret.value) = Len(merged)
            /\ \A i \in 1..Len(merged) :
                  /\ ret.value[i].content = merged[i].content
                  /\ ret.value[i].relevance = merged[i].score

\* C21 witness: two queries whose searches both return "alpha" first, with
\* different scores, and a second content with a lower score; the merged list
\* has two results.
C21_Witness ==
    /\ ret.call = "multi_query_context"
    /\ ret.ready
    /\ Len(ret.lists) = 2
    /\ Len(ret.lists[1]) = 2
    /\ Len(ret.lists[2]) >= 1
    /\ ret.lists[1][1].content = "alpha"
    /\ ret.lists[2][1].content = "alpha"
    /\ ret.lists[1][1].score # ret.lists[2][1].score
    /\ ret.lists[1][2].content = "beta"
    /\ Len(ret.merged) = 2

\* the url a repository dict and a paper dict are stored under
UrlOf(call, arg) ==
    IF call = "store_github_repository"
    THEN get_or(arg, "url", get_or(arg, "html_url", ""))
    ELSE get_or(arg, "url", "")

InfoOf(call, entry) ==
    IF call = "store_github_repository" THEN entry.repository_info ELSE entry.paper_info

GivenInfo(call, arg) ==
    IF call = "store_github_repository"
    THEN [url |-> UrlOf(call, arg), stars |-> arg.stars]
    ELSE [url |-> UrlOf(call, arg), title |-> arg.title]

\* the step is a call of store_github_repository or store_research_paper
\* that returned an id: an entry with the url of the call, if there was one,
\* had this id; after the call the dict has the keys it had and this id, one
\* entry with this url, which holds what the call was given, the other
\* entries as they were, and the counter is the number of urls stored
StoredOnce(call, kind, total) ==
    (ret'.call = call /\ ret'.value # None) =>
        LET id == ret'.value[1]
            u == UrlOf(call, ret'.arg)
            before == knowledge_base[kind]
            after == knowledge_base'[kind]
        IN  /\ \A k \in DOMAIN before : InfoOf(call, before[k]).url = u => k = id
            /\ DOMAIN after = DOMAIN before \cup {id}
            /\ after[id].id = id
            /\ InfoOf(call, after[id]) = GivenInfo(call, ret'.arg)
            /\ \A k \in DOMAIN before : k # id => after[k] = before[k]
            /\ Cardinality({k \in DOMAIN after : InfoOf(call, after[k]).url = u}) = 1
            /\ knowledge_base'.metadata[total]
                  = Cardinality({InfoOf(call, after[k]).url : k \in DOMAIN after})

\* C22: a call of store_github_repository (store_research_paper) with a url
\* that is stored returns the id of the stored entry and replaces it by what
\* this call was given, so that the store holds one entry for each url and
\* total_github_repos (total_research_papers) counts the urls, not the calls.
C22_DedupByUrl ==
    [][/\ StoredOnce("store_github_repository", "github_repositories",
                     "total_github_repos")
       /\ StoredOnce("store_research_paper", "research_papers",
                     "total_research_papers")]_vars

\* C22 witness: the second repository was stored, then the first with one
\* star, and now the first again with two stars: the call replaced the entry
\* and the counter is 2 after three calls.
C22_Witness ==
    /\ ret.call = "store_github_repository"
    /\ ret.replaced
    /\ ret.arg = [url |-> "https://github.com/a/x", stars |-> 2]
    /\ knowledge_base.github_repositories[ret.value[1]].repository_info.stars = 2
    /\ knowledge_base.github_repositories[ret.value[1]].stored_at = isoformat(30)
    /\ knowledge_base.metadata.total_github_repos = 2
    /\ \E k \in DOMAIN knowledge_base.github_repositories :
          /\ knowledge_base.github_repositories[k].repository_info.url
                = "https://github.com/b/y"
          /\ knowledge_base.github_repositories[k].stored_at = isoformat(0)

\* C23: a call of store_project_analysis with a description that was stored
\* at another time returns the id of the stored entry, and project_analyses
\* then holds one entry with this description, with what this call was given.
C23_AnalysisDedup ==
    [][(ret'.call = "store_project_analysis" /\ ret'.value # None) =>
          LET id == ret'.value[1]
              given == ret'.arg
              before == knowledge_base.project_analyses
              after == knowledge_base'.project_analyses
          IN  /\ \A k \in DOMAIN before :
                    (/\ before[k].project_description = given.project_data
                     /\ before[k].analyzed_at # isoformat(now)) => k = id
              /\ Cardinality({k \in DOMAIN after :
                    after[k].project_description = given.project_data}) = 1
              /\ after[id].total_github_repos
                    = given.analysis_results.total_projects_found]_vars

StoreCalls ==
    {"store_github_repository", "store_research_paper", "store_project_analysis"}

NoUrlGiven(call, arg) ==
    \/ call = "store_github_repository" /\ DOMAIN arg \cap {"url", "html_url"} = {}
    \/ call = "store_research_paper" /\ get_or(arg, "url", "") = ""

\* C24: a call of store_github_repository with neither url nor html_url, and
\* a call of store_research_paper with no url, return None and leave the
\* store (entries, counters, last_updated) and the vector indexer as they
\* were; no call of a store method leaves by an exception, whatever raised
\* inside it.
C24_StoreNeverRaises ==
    [][/\ NoUrlGiven(ret'.call, ret'.arg) =>
             /\ ret'.value = None
             /\ knowledge_base' = knowledge_base
             /\ <<index, documents, metadata>>' = <<index, documents, metadata>>
       /\ ret'.call \in StoreCalls => ret'.raised = "none"]_vars

\* C24 witness: in one invocation a repository was stored and put in the
\* vector indexer, and the call for the next one, which has no url, returned
\* None.
C24_Witness ==
    /\ ret.call = "store_github_repository"
    /\ DOMAIN ret.arg = {"stars"}
    /\ ret.value = None
    /\ crawl.pc = "store"
    /\ crawl.stored_repos = 1
    /\ Len(crawl.returned) = 2
    /\ documents # << >>
    /\ len(knowledge_base.github_repositories) = 1
    /\ knowledge_base.metadata.total_github_repos = 1

\* the entries of a dict that are not older than the cutoff, by the field
\* that holds their time
NotOlder(dict, field, cutoff_date) ==
    LET keep == {k \in DOMAIN dict :
                    LET day == fromisoformat(dict[k][field])
                    IN  day.raised # "none" \/ day.value >= cutoff_date}
    IN  [k \in keep |-> dict[k]]

\* C25: clear_old_data(days_old) removes the items stored more than days_old
\* days ago and no other, changes no item that stays, and leaves each counter
\* equal to the size of its set.  (A step that leaves the clock alone and has
\* the call as its outcome is the call.)
C25_PruneExact ==
    [][(ret'.call = "clear_old_data" /\ now' = now) =>
          LET cutoff_date == now - ret'.arg
              before == knowledge_base
              after == knowledge_base'
          IN  /\ after.github_repositories
                    = NotOlder(before.github_repositories, "stored_at", cutoff_date)
              /\ after.research_papers
                    = NotOlder(before.research_papers, "stored_at", cutoff_date)
              /\ after.project_analyses
                    = NotOlder(before.project_analyses, "analyzed_at", cutoff_date)
              /\ after.metadata.total_github_repos = len(after.github_repositories)
              /\ after.metadata.total_research_papers = len(after.research_papers)
              /\ after.metadata.total_projects_analyzed
                    = len(after.project_analyses)]_vars

\* C29: in every state each counter of the metadata is the size of its dict,
\* whatever calls of the store methods and of clear_old_data were made, those
\* that met an exception part-way included.
C29_CountersMatch ==
    /\ knowledge_base.metadata.total_github_repos
          = len(knowledge_base.github_repositories)
    /\ knowledge_base.metadata.total_research_papers
          = len(knowledge_base.research_papers)
    /\ knowledge_base.metadata.total_projects_analyzed
          = len(knowledge_base.project_analyses)

\* C30, first half: when _store_research_in_knowledge_base returns,
\* save_knowledge_base was called if and only if a call of
\* store_github_repository or store_research_paper of this invocation returned
\* an id; when it was not called the file is as it was, and a project analysis
\* the invocation stored is in the store in memory.
C30_SaveIffStored ==
    (ret'.call = "_store_research_in_knowledge_base" /\ crawl.pc = "save") =>
        /\ ret'.save_called
              <=> \E i \in 1..Len(ret'.returned) : ret'.returned[i] # None
        /\ ret'.success =>
              json_file' = [state |-> "ok", text |-> json_dump(knowledge_base')]
        /\ ~ret'.save_called =>
              /\ json_file' = json_file
              /\ ret'.analysis # None =>
                    ret'.analysis[1] \in DOMAIN knowledge_base'.project_analyses

AnalysisOnFile(id) ==
    /\ json_file.state = "ok"
    /\ id \in DOMAIN json_load(json_file.text).project_analyses

\* C30, second half: when the process stops after such an invocation, before
\* any later save, the store of the next process does not have the analysis.
C30_UnsavedIsLost ==
    (/\ ret.call = "_store_research_in_knowledge_base"
     /\ ~ret.save_called
     /\ ret.analysis # None
     /\ ret'.call = "__init__") =>
        /\ ~AnalysisOnFile(ret.analysis[1])
        /\ ret.analysis[1] \notin DOMAIN knowledge_base'.project_analyses

\* C30: save_knowledge_base is called at the end of
\* _store_research_in_knowledge_base iff a repository or a paper of this
\* invocation was stored; an analysis stored by an invocation that stored
\* neither is in memory only and is lost when the process stops before a
\* later save.
C30_SavedOnlyWithItems == [][C30_SaveIffStored /\ C30_UnsavedIsLost]_vars

\* C30 witness: an invocation whose repository and paper had no url returned
\* without saving; its analysis is in the store in memory, the file holds an
\* earlier state of the store without it.
C30_Witness ==
    /\ ret.call = "_store_research_in_knowledge_base"
    /\ ~ret.save_called
    /\ Len(ret.returned) = 2
    /\ ret.analysis # None
    /\ ret.analysis[1] \in DOMAIN knowledge_base.project_analyses
    /\ json_file.state = "ok"
    /\ ~AnalysisOnFile(ret.analysis[1])
    /\ len(json_load(json_file.text).project_analyses) = 1
    /\ len(knowledge_base.project_analyses) = 2


\* C26: from the moment a successful rebuild of a run is over (the run is
\* about to search the context and to submit Tier A) the orchestrator, the
\* optimizer agent and the echo agent refer to one and the same RAGSystem;
\* a rebuild that indexed no documents or failed leaves the three references
\* as they were.
C26_SharedRagSystem ==
    [][/\ \A t \in Threads :
             (pc'[t] = "step1" /\ results'[t].res["indexing"] = "success") =>
                 /\ rag_system'.optimizer_agent = rag_system'.orchestrator
                 /\ rag_system'.echo_agent = rag_system'.orchestrator
       /\ \A t \in Threads :
             (pc[t] = "indexing" /\ results'[t].res["indexing"] \in {"warning", "error"}) =>
                 rag_system' = rag_system]_vars


\* C27: when process_project_comprehensive has returned (and no reset
\* happened), current_process["status"] equals process_status, and both equal
\* the process_info status of the results the call returned.
C27_StatusAgree ==
    \A t \in Threads :
        (pc[t] = "ret" /\ ~reset) =>
            /\ current_process # None
            /\ current_process[1].status = process_status
            /\ process_status = results[t].status


\* C28: the dashboard and the action-plan task are submitted only after the
\* synthesis call has returned with status "success"; when synthesis failed
\* neither is submitted and the results hold no "dashboard" and no
\* "action_plan" entry, and the run (not disturbed by a reset) still ends
\* with status "completed" and a summary that does not count the two tasks.
C28_SynthesisGatesTierC ==
    \A t \in Threads :
        /\ (\E k \in TierC : fut[t][k] # "none") =>
              results[t].res["synthesis"] = "success"
        /\ results[t].res["synthesis"] = "error" =>
              \A k \in TierC : fut[t][k] = "none" /\ results[t].res[k] = "absent"
        /\ (Ended(t) /\ ~reset /\ results[t].res["synthesis"] = "error") =>
              /\ results[t].status = "completed"
              /\ process_status = "completed"
              /\ results[t].summary # None
              /\ results[t].summary[1].total_agents_run =
                    Cardinality({k \in AgentKeys \ TierC : results[t].res[k] # "absent"})

====
